---- MODULE Spec2Model ----
(***************************************************************************)
(* Model of the bench power-supply firmware (ATmega328, Arduino core).     *)
(*                                                                         *)
(* Two execution contexts share the globals: the 5 ms Timer1 interrupt     *)
(* (inputISR) and the foreground loop().  The interrupt handler runs with  *)
(* interrupts disabled, so it is one atomic action; the foreground code is *)
(* split at every point where the interrupt can preempt it.                *)
(*                                                                         *)
(* int is 16 bits wide on this processor; byte is 8 bits; float is IEEE    *)
(* binary32.                                                               *)
(***************************************************************************)
EXTENDS Integers, Sequences, FiniteSets, TLC

VARIABLES
    \* ---- globals shared with the interrupt handler
    outputEnabled,              \* volatile bool
    outputEnabledChanged,       \* volatile bool
    resetButtonDepressedCount,  \* volatile int
    vSetEncoderValue,           \* volatile int
    iSetEncoderValue,           \* volatile int
    vSetEncoderChanged,         \* volatile bool
    iSetEncoderChanged,         \* volatile bool
    VSETA_last,                 \* volatile int
    ISETA_last,                 \* volatile int
    \* ---- pins
    pins,                       \* input levels sampled by the last tick
    SHUTDOWN_LED,               \* output level of the shutdown LED pin
    CSADC,                      \* output level of the ADC chip select
    CSDAC,                      \* output level of the DAC chip select
    ENABLE2675,                 \* output level of the LM2675 enable pin
    \* ---- foreground context
    pc,                         \* position of the foreground code
    ledLevel,                   \* !outputEnabled as evaluated for digitalWrite
    dac,                        \* writeDac frame: arguments and local b
    adc,                        \* readAdc frame: argument, locals, result
    spiTx,                      \* bytes shifted out since the call began
    spiRx,                      \* bytes shifted in since the call began
    cal,                        \* calibration call: target and result
    lcd,                        \* updateLCD frame: the bytes and values read
    \* ---- observation of the tick input sequence
    run,                        \* asserted button samples in a row, up to RunCap
    ticks,                      \* number of ticks taken, up to MaxTicks
    tickAt,                     \* phase of the foreground in which the last tick fired
    toggled,                    \* outputEnabled has been toggled since power-up
    held,                       \* values the positions held while updateLCD reads,
                                \* and whether a tick fell between the two fetches
    bus                         \* a DAC frame with the enable bit has been sent;
                                \* ADC queries begun by calculateADC2Input

vars == << outputEnabled, outputEnabledChanged, resetButtonDepressedCount,
           vSetEncoderValue, iSetEncoderValue, vSetEncoderChanged,
           iSetEncoderChanged, VSETA_last, ISETA_last, pins, SHUTDOWN_LED,
           CSADC, CSDAC, ENABLE2675, pc, ledLevel, dac, adc, spiTx, spiRx,
           cal, lcd, run, ticks, tickAt, toggled, held, bus >>

buttonVars  == << outputEnabled, outputEnabledChanged,
                  resetButtonDepressedCount >>
encoderVars == << vSetEncoderValue, iSetEncoderValue, vSetEncoderChanged,
                  iSetEncoderChanged, VSETA_last, ISETA_last >>
spiVars     == << CSADC, CSDAC, dac, adc, spiTx, spiRx >>
loopVars    == << pc, ledLevel, SHUTDOWN_LED >>
obsVars     == << pins, run, ticks, tickAt, toggled >>

-----------------------------------------------------------------------------
(* Bounds of the model *)

\* ticks counted by the specifications that bound the length of the run
MaxTicks == 6
\* longest button hold, in ticks, in the specifications that bound it
MaxHold == 5

-----------------------------------------------------------------------------
(* Machine arithmetic *)

HIGH == 1
LOW  == 0
Levels == {LOW, HIGH}

IntBits == 16
IntMax  == 2^(IntBits - 1) - 1
IntMin  == -(2^(IntBits - 1))
Int16   == IntMin..IntMax

\* two's-complement image of a 16-bit int, and back
ToU16(x) == x % 2^IntBits
ToS16(u) == IF u % 2^IntBits > IntMax THEN (u % 2^IntBits) - 2^IntBits
            ELSE u % 2^IntBits
ToByte(x) == x % 256

BoolToInt(b) == IF b THEN 1 ELSE 0

RECURSIVE BitAnd(_, _)
BitAnd(a, b) ==
    IF a = 0 \/ b = 0 THEN 0
    ELSE 2 * BitAnd(a \div 2, b \div 2) + (IF a % 2 = 1 /\ b % 2 = 1 THEN 1 ELSE 0)

RECURSIVE BitOr(_, _)
BitOr(a, b) ==
    IF a = 0 THEN b
    ELSE IF b = 0 THEN a
    ELSE 2 * BitOr(a \div 2, b \div 2) + (IF a % 2 = 1 \/ b % 2 = 1 THEN 1 ELSE 0)

\* int & int, int | int on 16-bit two's-complement operands
\* the AND taken on magnitudes instead of two's-complement patterns
IntAnd_Magnitude(x, y) ==
    BitAnd(IF x < 0 THEN -x ELSE x, IF y < 0 THEN -y ELSE y)

IntAnd(x, y) == ToS16(BitAnd(ToU16(x), ToU16(y)))
IntOr(x, y)  == ToS16(BitOr(ToU16(x), ToU16(y)))
\* x << n for a non-negative int x; a result that does not fit is converted
\* to int modulo 2^16
IntShl(x, n) == ToS16(x * 2^n)
\* x >> n for a non-negative int x
IntShr(x, n) == x \div 2^n

\* The result of x + d (d = 1 or -1) on a 16-bit int.  Signed overflow is
\* undefined behaviour: the outcomes are the wrapped value the AVR add/store
\* sequence produces, or the value left as it was.
IntAdd(x, d) ==
    IF x + d \in Int16 THEN {x + d} ELSE {ToS16(x + d), x}

-----------------------------------------------------------------------------
(* Interrupt context *)

\* resetButtonISR: btn is the level read from OUTRESET_BTN (active low)
resetButtonISR(btn) ==
    IF btn = LOW
    THEN /\ resetButtonDepressedCount' \in IntAdd(resetButtonDepressedCount, 1)
         /\ UNCHANGED << outputEnabled, outputEnabledChanged >>
    ELSE IF resetButtonDepressedCount > 0
    THEN /\ IF resetButtonDepressedCount > 3
            THEN /\ outputEnabled' = ~outputEnabled
                 /\ outputEnabledChanged' = TRUE
            ELSE UNCHANGED << outputEnabled, outputEnabledChanged >>
         /\ resetButtonDepressedCount' = 0
    ELSE UNCHANGED buttonVars

\* Debounce threshold of resetButtonISR: a run must exceed it to toggle
DebounceThreshold == 3

\* observation of the button input: length of the asserted run, counted up
\* to one more than the threshold
RunCap == DebounceThreshold + 1
NoSample == -1
PinSamples == [btn : Levels, vA : Levels, vB : Levels, iA : Levels, iB : Levels]
Idle == [btn |-> NoSample, vA |-> NoSample, vB |-> NoSample,
         iA |-> NoSample, iB |-> NoSample]

\* the part of the foreground a position belongs to: between the two edges of
\* a chip select, between the LED write and the flag clear, inside
\* delay(1000), or elsewhere
Phase(p) ==
    IF p \in {"dac_tx0", "dac_tx1", "dac_cs_high",
              "adc_tx0", "adc_tx1", "adc_tx2", "adc_cs_high"} THEN "spi"
    ELSE IF p \in {"led_clear", "main_led_clear"} THEN "led"
    ELSE IF p = "main_delay" THEN "delay"
    ELSE "other"

Observe(s) ==
    /\ pins' = s
    /\ run' = IF s.btn = LOW
              THEN (IF run < RunCap THEN run + 1 ELSE RunCap)
              ELSE 0
    /\ ticks' = IF ticks < MaxTicks THEN ticks + 1 ELSE MaxTicks
    /\ tickAt' = Phase(pc)
    /\ toggled' = (toggled \/ outputEnabled' # outputEnabled)
    /\ held' = IF lcd.reading = "v"
               THEN [held EXCEPT !.v = @ \cup {vSetEncoderValue'}, !.n = 1]
               ELSE IF lcd.reading = "i"
               THEN [held EXCEPT !.i = @ \cup {iSetEncoderValue'}, !.n = 1]
               ELSE held

\* inputISR of the button-only revision: one timer tick
ButtonTick(btn) ==
    /\ resetButtonISR(btn)
    /\ UNCHANGED << encoderVars, spiVars, loopVars, cal, ENABLE2675, lcd, bus >>
    /\ Observe([Idle EXCEPT !.btn = btn])

\* vSetEncoderISR: A, B are the levels read from VSETA, VSETB
vSetEncoderISR(A, B) ==
    /\ IF VSETA_last = LOW /\ A = HIGH
       THEN /\ vSetEncoderValue' \in
                   IntAdd(vSetEncoderValue, IF B = LOW THEN 1 ELSE -1)
            /\ vSetEncoderChanged' = TRUE
       ELSE UNCHANGED << vSetEncoderValue, vSetEncoderChanged >>
    /\ VSETA_last' = A

\* iSetEncoderISR: A, B are the levels read from ISETA, ISETB
iSetEncoderISR(A, B) ==
    /\ IF ISETA_last = LOW /\ A = HIGH
       THEN /\ iSetEncoderValue' \in
                   IntAdd(iSetEncoderValue, IF B = LOW THEN 1 ELSE -1)
            /\ iSetEncoderChanged' = TRUE
       ELSE UNCHANGED << iSetEncoderValue, iSetEncoderChanged >>
    /\ ISETA_last' = A

\* inputISR of the complete revision: one timer tick sampling s
\* the handler holding its updates back while a chip select is asserted
inputISR_MaskedInTransaction(s) ==
    IF CSADC = LOW \/ CSDAC = LOW
    THEN UNCHANGED << buttonVars, encoderVars >>
    ELSE /\ resetButtonISR(s.btn)
         /\ vSetEncoderISR(s.vA, s.vB)
         /\ iSetEncoderISR(s.iA, s.iB)

inputISR(s) ==
    /\ resetButtonISR(s.btn)
    /\ vSetEncoderISR(s.vA, s.vB)
    /\ iSetEncoderISR(s.iA, s.iB)

Tick(s) ==
    /\ inputISR(s)
    /\ Observe(s)
    /\ UNCHANGED << spiVars, loopVars, cal, ENABLE2675, lcd, bus >>

-----------------------------------------------------------------------------
(* Initial state: the globals' initialisers and the pin levels setup() writes *)

InitGlobals ==
    /\ outputEnabled = FALSE
    /\ outputEnabledChanged = FALSE
    /\ resetButtonDepressedCount = 0
    /\ vSetEncoderValue = 0
    /\ iSetEncoderValue = 0
    /\ vSetEncoderChanged = FALSE
    /\ iSetEncoderChanged = FALSE
    /\ VSETA_last = HIGH
    /\ ISETA_last = HIGH

InitPins ==
    /\ pins = Idle
    /\ SHUTDOWN_LED = HIGH
    /\ CSADC = HIGH
    /\ CSDAC = HIGH
    /\ ENABLE2675 = LOW

\* nothing observed yet
InitObs ==
    /\ run = 0
    /\ ticks = 0
    /\ tickAt = "none"
    /\ toggled = FALSE
    /\ held = [v |-> {}, i |-> {}, n |-> 0]
    /\ bus = [dacOn |-> FALSE, queries |-> 0]

\* updateLCD has read nothing yet
NoRead == [reading |-> "none", order |-> "lo", byte |-> 0,
           vRead |-> FALSE, v |-> 0, iRead |-> FALSE, i |-> 0,
           ret |-> "done"]

NoCall == [ret |-> "done"]

InitForeground ==
    /\ pc = "loop"
    /\ ledLevel = HIGH
    /\ dac = NoCall
    /\ adc = NoCall
    /\ spiTx = << >>
    /\ spiRx = << >>
    /\ cal = NoCall

Init ==
    /\ InitGlobals
    /\ InitPins
    /\ InitForeground
    /\ lcd = NoRead
    /\ InitObs

-----------------------------------------------------------------------------
(* Foreground context: loop() of the button-only revision.  The interrupt  *)
(* can fire between any two of these steps.                                *)

\* if (outputEnabledChanged)
LoopTest ==
    /\ pc = "loop"
    /\ pc' = IF outputEnabledChanged THEN "led_read" ELSE "loop"
    /\ UNCHANGED << buttonVars, encoderVars, spiVars, cal, obsVars,
                    ledLevel, SHUTDOWN_LED >>
    /\ UNCHANGED << ENABLE2675, lcd, held, bus >>

\* the argument !outputEnabled of digitalWrite is evaluated
LoopReadEnabled ==
    /\ pc = "led_read"
    /\ ledLevel' = BoolToInt(~outputEnabled)
    /\ pc' = "led_write"
    /\ UNCHANGED << buttonVars, encoderVars, spiVars, cal, obsVars,
                    SHUTDOWN_LED >>
    /\ UNCHANGED << ENABLE2675, lcd, held, bus >>

\* digitalWrite(SHUTDOWN_LED, ...) drives the pin
LoopWriteLed ==
    /\ pc = "led_write"
    /\ SHUTDOWN_LED' = ledLevel
    /\ pc' = "led_clear"
    /\ UNCHANGED << buttonVars, encoderVars, spiVars, cal, obsVars,
                    ledLevel >>
    /\ UNCHANGED << ENABLE2675, lcd, held, bus >>

\* outputEnabledChanged = false; loop() returns and is called again
LoopClearFlag ==
    /\ pc = "led_clear"
    /\ outputEnabledChanged' = FALSE
    /\ pc' = "loop"
    /\ UNCHANGED << outputEnabled, resetButtonDepressedCount, encoderVars,
                    spiVars, cal, obsVars, ledLevel, SHUTDOWN_LED >>
    /\ UNCHANGED << ENABLE2675, lcd, held, bus >>

-----------------------------------------------------------------------------
(* writeDac: MCP4822 command frame *)

Bytes == 0..255
MaxDacCode == 4095

\* variant: the gain bit copied instead of inverted
WriteDacByte0_GainNotInverted(channel, gainEnable, channelEnable, value) ==
    LET b1 == ToByte(BitOr(0, ToU16(IntShl(BoolToInt(channel # 0), 7))))
        b2 == ToByte(BitOr(b1, ToU16(IntShl(BoolToInt(gainEnable), 5))))
        b3 == ToByte(BitOr(b2, ToU16(IntShl(BoolToInt(channelEnable), 4))))
        b4 == ToByte(BitOr(b3, ToU16(IntShr(IntAnd(value, 4095), 8))))
    IN  b4

\* lines 157-165: the first byte, built up in the byte variable b
WriteDacByte0(channel, gainEnable, channelEnable, value) ==
    LET b0 == 0
        b1 == ToByte(BitOr(b0, ToU16(IntShl(BoolToInt(channel # 0), 7))))
        b2 == ToByte(BitOr(b1, ToU16(IntShl(BoolToInt(~gainEnable), 5))))
        b3 == ToByte(BitOr(b2, ToU16(IntShl(BoolToInt(channelEnable), 4))))
        b4 == ToByte(BitOr(b3, ToU16(IntShr(IntAnd(value, 4095), 8))))
    IN  b4

\* variant: the low byte masked to 7 bits
WriteDacByte1_SevenBits(value) == ToByte(ToU16(IntAnd(value, 127)))

\* line 172: (byte)(value & 255)
WriteDacByte1(value) == ToByte(ToU16(IntAnd(value, 255)))

WriteDacFrame ==
    /\ pc = "writeDac"
    /\ dac' = [dac EXCEPT !.b = WriteDacByte0(dac.channel, dac.gainEnable,
                                              dac.channelEnable, dac.value)]
    /\ spiTx' = << >>
    /\ spiRx' = << >>
    /\ pc' = "dac_cs_low"
    /\ UNCHANGED << buttonVars, encoderVars, obsVars, cal, adc,
                    CSADC, CSDAC, ledLevel, SHUTDOWN_LED >>
    /\ UNCHANGED << ENABLE2675, lcd, held, bus >>

WriteDacCsLow ==
    /\ pc = "dac_cs_low"
    /\ CSDAC' = LOW
    /\ pc' = "dac_tx0"
    /\ UNCHANGED << buttonVars, encoderVars, obsVars, cal, adc, dac,
                    spiTx, spiRx, CSADC, ledLevel, SHUTDOWN_LED >>
    /\ UNCHANGED << ENABLE2675, lcd, held, bus >>

WriteDacTransfer0 ==
    /\ pc = "dac_tx0"
    /\ spiTx' = Append(spiTx, dac.b)
    /\ bus' = [bus EXCEPT !.dacOn = @ \/ (dac.b \div 16) % 2 = 1]
    /\ pc' = "dac_tx1"
    /\ UNCHANGED << buttonVars, encoderVars, obsVars, cal, adc, dac,
                    spiRx, CSADC, CSDAC, ledLevel, SHUTDOWN_LED >>
    /\ UNCHANGED << ENABLE2675, lcd, held >>

WriteDacTransfer1 ==
    /\ pc = "dac_tx1"
    /\ spiTx' = Append(spiTx, WriteDacByte1(dac.value))
    /\ pc' = "dac_cs_high"
    /\ UNCHANGED << buttonVars, encoderVars, obsVars, cal, adc, dac,
                    spiRx, CSADC, CSDAC, ledLevel, SHUTDOWN_LED >>
    /\ UNCHANGED << ENABLE2675, lcd, held, bus >>

\* the chip select left asserted at the end of the transaction
WriteDacCsHigh_LeftLow ==
    /\ pc = "dac_cs_high"
    /\ pc' = dac.ret
    /\ UNCHANGED << buttonVars, encoderVars, obsVars, cal, adc, dac,
                    spiTx, spiRx, CSADC, CSDAC, ledLevel, SHUTDOWN_LED >>
    /\ UNCHANGED << ENABLE2675, lcd, held, bus >>

WriteDacCsHigh ==
    /\ pc = "dac_cs_high"
    /\ CSDAC' = HIGH
    /\ pc' = dac.ret
    /\ UNCHANGED << buttonVars, encoderVars, obsVars, cal, adc, dac,
                    spiTx, spiRx, CSADC, ledLevel, SHUTDOWN_LED >>
    /\ UNCHANGED << ENABLE2675, lcd, held, bus >>

-----------------------------------------------------------------------------
(* readAdc: MCP3204 query frame and response *)

\* lines 190-194
ReadAdcByte0 ==
    LET b0 == 0
        b1 == ToByte(BitOr(b0, ToU16(IntShl(1, 2))))
        b2 == ToByte(BitOr(b1, ToU16(IntShl(1, 1))))
    IN  b2

\* variant: the channel shifted one place short
ReadAdcByte1_Shift5(channel) ==
    ToByte(BitOr(0, ToU16(IntShl(channel, 5))))

\* lines 196-203
ReadAdcByte1(channel) ==
    ToByte(BitOr(0, ToU16(IntShl(channel, 6))))

\* line 234: output = SPI.transfer(b1) << 8
ReadAdcHigh(r) == IntShl(r, 8)

\* line 236: output |= SPI.transfer(0)
ReadAdcLow(output, r) == IntOr(output, r)

\* variant: the null bit and the bits above it not masked off
ReadAdcResult_NoMask(output) == output

\* line 241: return output & 4095
ReadAdcResult(output) == IntAnd(output, 4095)

ReadAdcFrame ==
    /\ pc = "readAdc"
    /\ adc' = [adc EXCEPT !.b0 = ReadAdcByte0,
                          !.b1 = ReadAdcByte1(adc.channel),
                          !.output = 0]
    /\ spiTx' = << >>
    /\ spiRx' = << >>
    /\ pc' = "adc_cs_low"
    /\ UNCHANGED << buttonVars, encoderVars, obsVars, cal, dac,
                    CSADC, CSDAC, ledLevel, SHUTDOWN_LED >>
    /\ UNCHANGED << ENABLE2675, lcd, held, bus >>

ReadAdcCsLow ==
    /\ pc = "adc_cs_low"
    /\ CSADC' = LOW
    /\ bus' = [bus EXCEPT !.queries = @ + 1]
    /\ pc' = "adc_tx0"
    /\ UNCHANGED << buttonVars, encoderVars, obsVars, cal, adc, dac,
                    spiTx, spiRx, CSDAC, ledLevel, SHUTDOWN_LED >>
    /\ UNCHANGED << ENABLE2675, lcd, held >>

\* SPI.transfer(b0); r is the byte the device shifts back
ReadAdcTransfer0(r) ==
    /\ pc = "adc_tx0"
    /\ spiTx' = Append(spiTx, adc.b0)
    /\ spiRx' = Append(spiRx, r)
    /\ pc' = "adc_tx1"
    /\ UNCHANGED << buttonVars, encoderVars, obsVars, cal, adc, dac,
                    CSADC, CSDAC, ledLevel, SHUTDOWN_LED >>
    /\ UNCHANGED << ENABLE2675, lcd, held, bus >>

ReadAdcTransfer1(r) ==
    /\ pc = "adc_tx1"
    /\ spiTx' = Append(spiTx, adc.b1)
    /\ spiRx' = Append(spiRx, r)
    /\ adc' = [adc EXCEPT !.output = ReadAdcHigh(r)]
    /\ pc' = "adc_tx2"
    /\ UNCHANGED << buttonVars, encoderVars, obsVars, cal, dac,
                    CSADC, CSDAC, ledLevel, SHUTDOWN_LED >>
    /\ UNCHANGED << ENABLE2675, lcd, held, bus >>

ReadAdcTransfer2(r) ==
    /\ pc = "adc_tx2"
    /\ spiTx' = Append(spiTx, 0)
    /\ spiRx' = Append(spiRx, r)
    /\ adc' = [adc EXCEPT !.output = ReadAdcLow(adc.output, r)]
    /\ pc' = "adc_cs_high"
    /\ UNCHANGED << buttonVars, encoderVars, obsVars, cal, dac,
                    CSADC, CSDAC, ledLevel, SHUTDOWN_LED >>
    /\ UNCHANGED << ENABLE2675, lcd, held, bus >>

ReadAdcCsHigh ==
    /\ pc = "adc_cs_high"
    /\ CSADC' = HIGH
    /\ pc' = "adc_return"
    /\ UNCHANGED << buttonVars, encoderVars, obsVars, cal, adc, dac,
                    spiTx, spiRx, CSDAC, ledLevel, SHUTDOWN_LED >>
    /\ UNCHANGED << ENABLE2675, lcd, held, bus >>

ReadAdcReturn ==
    /\ pc = "adc_return"
    /\ adc' = [adc EXCEPT !.result = ReadAdcResult(adc.output)]
    /\ pc' = adc.ret
    /\ UNCHANGED << buttonVars, encoderVars, obsVars, cal, dac,
                    spiTx, spiRx, CSADC, CSDAC, ledLevel, SHUTDOWN_LED >>
    /\ UNCHANGED << ENABLE2675, lcd, held, bus >>

-----------------------------------------------------------------------------
(* Calibration: float is IEEE binary32.  A product int * constant is formed *)
(* exactly, rounded to a 24-bit significand (to nearest, ties to even) and  *)
(* converted to int by discarding the fraction.  The significand of the     *)
(* constant is split into two 12-bit limbs to keep every intermediate       *)
(* within 31 bits.                                                          *)

RECURSIVE BitLen(_)
BitLen(n) == IF n = 0 THEN 0 ELSE 1 + BitLen(n \div 2)

Limb == 2^12

\* nearest binary32 to a * m for 0 <= a <= 2^15 and a significand m < 2^24:
\* the value is q * 2^s
F32MulInt(a, m) ==
    LET mh  == m \div Limb
        ml  == m % Limb
        lo0 == a * ml
        hi  == a * mh + lo0 \div Limb
        lo  == lo0 % Limb
        s   == BitLen(hi) - 12
    IN  IF s <= 0 THEN [q |-> hi * Limb + lo, s |-> 0]
        ELSE LET q == IF s <= 12 THEN hi * 2^(12 - s) + lo \div 2^s
                      ELSE hi \div 2^(s - 12)
                 r == IF s <= 12 THEN lo % 2^s
                      ELSE (hi % 2^(s - 12)) * Limb + lo
                 half == 2^(s - 1)
                 up == r > half \/ (r = half /\ q % 2 = 1)
             IN  [q |-> IF up THEN q + 1 ELSE q, s |-> s]

\* variant: the product rounded to the nearest int instead of cut off
MulRoundF32(x, m, e) ==
    LET a == IF x < 0 THEN -x ELSE x
        f == F32MulInt(a, m)
        t == (f.q + 2^(e - f.s - 1)) \div 2^(e - f.s)
    IN  IF x < 0 THEN -t ELSE t

\* (int)(x * c) for an int x and a positive float constant c = m * 2^-e
\* whose product fits an int: the fraction is discarded (toward zero)
MulTruncF32(x, m, e) ==
    LET a == IF x < 0 THEN -x ELSE x
        f == F32MulInt(a, m)
        t == f.q \div 2^(e - f.s)
    IN  IF x < 0 THEN -t ELSE t

\* 0.437f = 14663287 * 2^-25
F0437Mant == 14663287
F0437Exp  == 25

\* variant: the cast applied to the whole expression, (int)(4530 - p):
\* one less whenever the product has a fraction and the difference is positive
calculateDAC1Output_CastWhole(target) ==
    LET t == MulTruncF32(target, F0437Mant, F0437Exp)
        f == F32MulInt(IF target < 0 THEN -target ELSE target, F0437Mant)
        exact == f.q % 2^(F0437Exp - f.s) = 0
    IN  IF exact THEN 4530 - t
        ELSE IF target >= 0 THEN (IF 4530 - t > 0 THEN 4530 - t - 1 ELSE 4530 - t)
        ELSE 4530 - t

\* line 283: return 4530 - (int)(target * (0.437f));
calculateDAC1Output(target) ==
    4530 - MulTruncF32(target, F0437Mant, F0437Exp)

CalcDAC1 ==
    /\ pc = "calculateDAC1Output"
    /\ cal' = [cal EXCEPT !.result = calculateDAC1Output(cal.target)]
    /\ pc' = cal.ret
    /\ UNCHANGED << buttonVars, encoderVars, obsVars, spiVars,
                    ledLevel, SHUTDOWN_LED >>
    /\ UNCHANGED << ENABLE2675, lcd, held, bus >>

-----------------------------------------------------------------------------
(* SpecButton: the button-only revision's interrupt handler, tick after tick *)

NextButton == \E btn \in Levels : ButtonTick(btn)

SpecButton == Init /\ [][NextButton]_vars

(* SpecLed: the button-only revision, interrupt and loop() interleaved; the *)
(* button is held for at most MaxHold ticks at a time                       *)

LedTick ==
    \E btn \in Levels :
        /\ btn = LOW => resetButtonDepressedCount < MaxHold
        /\ ButtonTick(btn)

NextLed ==
    \/ LedTick
    \/ LoopTest
    \/ LoopReadEnabled
    \/ LoopWriteLed
    \/ LoopClearFlag

SpecLed == Init /\ [][NextLed]_vars

(* SpecEncoder: the complete revision's interrupt handler for MaxTicks     *)
(* ticks with the button released.  A run starts from power-up (both       *)
(* positions 0) or from a state reached by turning a knob one way for      *)
(* 32766 (32767) detents, with the changed flag of a turned knob pending.  *)

EncoderStarts == {0, IntMax - 1, IntMin + 1}

InitEncoder ==
    /\ outputEnabled = FALSE
    /\ outputEnabledChanged = FALSE
    /\ resetButtonDepressedCount = 0
    /\ vSetEncoderValue \in EncoderStarts
    /\ iSetEncoderValue \in EncoderStarts
    /\ vSetEncoderChanged = (vSetEncoderValue # 0)
    /\ iSetEncoderChanged = (iSetEncoderValue # 0)
    /\ VSETA_last = HIGH
    /\ ISETA_last = HIGH
    /\ InitPins
    /\ InitForeground
    /\ lcd = NoRead
    /\ InitObs

EncoderTick ==
    /\ ticks < MaxTicks
    /\ \E s \in PinSamples : s.btn = HIGH /\ Tick(s)

NextEncoder == EncoderTick

SpecEncoder == InitEncoder /\ [][NextEncoder]_vars

(* SpecDac: one writeDac call for every argument tuple *)

DacArgs == [channel : {0, 1}, gainEnable : BOOLEAN, channelEnable : BOOLEAN,
            value : 0..MaxDacCode, b : {0}, ret : {"done"}]

InitDac ==
    /\ InitGlobals
    /\ InitPins
    /\ pc = "writeDac"
    /\ ledLevel = HIGH
    /\ dac \in DacArgs
    /\ adc = NoCall
    /\ spiTx = << >>
    /\ spiRx = << >>
    /\ cal = NoCall
    /\ lcd = NoRead
    /\ InitObs

NextDac ==
    \/ WriteDacFrame
    \/ WriteDacCsLow
    \/ WriteDacTransfer0
    \/ WriteDacTransfer1
    \/ WriteDacCsHigh

SpecDac == InitDac /\ [][NextDac]_vars

(* SpecAdc: one readAdc call for every channel and every device response *)

AdcArgs == [channel : 0..3, b0 : {0}, b1 : {0}, output : {0}, result : {0},
            ret : {"done"}]

\* bytes the device may shift back while the start byte is clocked out
StartResponses == {0, 255}

InitAdc ==
    /\ InitGlobals
    /\ InitPins
    /\ pc = "readAdc"
    /\ ledLevel = HIGH
    /\ dac = NoCall
    /\ adc \in AdcArgs
    /\ spiTx = << >>
    /\ spiRx = << >>
    /\ cal = NoCall
    /\ lcd = NoRead
    /\ InitObs

NextAdc ==
    \/ ReadAdcFrame
    \/ ReadAdcCsLow
    \/ \E r \in StartResponses : ReadAdcTransfer0(r)
    \/ \E r \in Bytes : ReadAdcTransfer1(r)
    \/ \E r \in Bytes : ReadAdcTransfer2(r)
    \/ ReadAdcCsHigh
    \/ ReadAdcReturn

SpecAdc == InitAdc /\ [][NextAdc]_vars

(* SpecCal: one calibration call for every int argument *)

CalArgs == [target : Int16, result : {0}, ret : {"done"}]

InitCal ==
    /\ InitGlobals
    /\ InitPins
    /\ pc = "calculateDAC1Output"
    /\ ledLevel = HIGH
    /\ dac = NoCall
    /\ adc = NoCall
    /\ spiTx = << >>
    /\ spiRx = << >>
    /\ cal \in CalArgs
    /\ lcd = NoRead
    /\ InitObs

NextCal == CalcDAC1

SpecCal == InitCal /\ [][NextCal]_vars

-----------------------------------------------------------------------------
(* Properties *)

\* C1: a tick that samples the button released after n asserted samples in
\* a row toggles outputEnabled once and sets outputEnabledChanged when
\* n >= 4, leaves outputEnabled alone when 1 <= n <= 3, and outputEnabled
\* changes on no other step.
C1_DebounceEveryRun ==
    [][ /\ (pins'.btn = HIGH /\ run > DebounceThreshold)
            => (outputEnabled' = ~outputEnabled /\ outputEnabledChanged')
        /\ (pins'.btn = HIGH /\ run \in 1..DebounceThreshold)
            => outputEnabled' = outputEnabled
        /\ (pins'.btn # HIGH \/ run = 0)
            => outputEnabled' = outputEnabled ]_vars

\* C4: resetButtonDepressedCount is never negative and is 0 after every
\* tick that samples the button released.
C4_CountNonNegativeAndReset ==
    /\ resetButtonDepressedCount >= 0
    /\ pins.btn = HIGH => resetButtonDepressedCount = 0

\* C3: with outputEnabledChanged false and loop() outside its LED block,
\* the LED pin is at the level NOT outputEnabled.
C3_LedTracksEnabled ==
    (~outputEnabledChanged /\ pc = "loop")
        => SHUTDOWN_LED = BoolToInt(~outputEnabled)

\* C2: an encoder's position changes on a tick exactly when the previous
\* tick sampled A LOW and this tick samples A HIGH; it then changes by +1
\* when B is LOW and by -1 when B is HIGH, and the changed flag is set;
\* after every tick the stored last-A level is the level just sampled.
C2_QuadratureDecode ==
    [][ /\ IF pins.vA = LOW /\ pins'.vA = HIGH
           THEN /\ vSetEncoderValue' =
                       vSetEncoderValue + (IF pins'.vB = LOW THEN 1 ELSE -1)
                /\ vSetEncoderChanged'
           ELSE vSetEncoderValue' = vSetEncoderValue
        /\ IF pins.iA = LOW /\ pins'.iA = HIGH
           THEN /\ iSetEncoderValue' =
                       iSetEncoderValue + (IF pins'.iB = LOW THEN 1 ELSE -1)
                /\ iSetEncoderChanged'
           ELSE iSetEncoderValue' = iSetEncoderValue
        /\ pins'.vA # NoSample => VSETA_last' = pins'.vA
        /\ pins'.iA # NoSample => ISETA_last' = pins'.iA ]_vars

Bit(x, k) == (x \div 2^k) % 2

\* C5: writeDac transmits exactly two bytes; Byte0 has bit7 = channel,
\* bit6 = 0, bit5 = NOT gainEnable, bit4 = channelEnable and
\* bits3..0 = value >> 8, and Byte1 = value & 0xFF; channel 1, gain on,
\* channel on, value 0xABC gives 0x9A, 0xBC.
C5_DacFrame ==
    /\ Len(spiTx) <= 2
    /\ pc = "done" =>
          /\ Len(spiTx) = 2
          /\ spiTx[1] \in Bytes /\ spiTx[2] \in Bytes
          /\ Bit(spiTx[1], 7) = dac.channel
          /\ Bit(spiTx[1], 6) = 0
          /\ Bit(spiTx[1], 5) = (IF dac.gainEnable THEN 0 ELSE 1)
          /\ Bit(spiTx[1], 4) = (IF dac.channelEnable THEN 1 ELSE 0)
          /\ spiTx[1] % 16 = dac.value \div 256
          /\ spiTx[2] = dac.value % 256
          /\ (dac.channel = 1 /\ dac.gainEnable /\ dac.channelEnable
                /\ dac.value = 2748) => spiTx = << 154, 188 >>

C5_Witness ==
    /\ pc = "done"
    /\ dac.channel = 1 /\ dac.gainEnable /\ dac.channelEnable
    /\ dac.value = 2748
    /\ spiTx = << 154, 188 >>
    /\ CSDAC = HIGH

\* C6: readAdc transmits exactly three bytes: 0b00000110, then channel << 6
\* with bits 5..0 zero, then 0; channel 2 gives 0x06, 0x80.
C6_AdcFrame ==
    /\ Len(spiTx) <= 3
    /\ pc = "done" =>
          /\ Len(spiTx) = 3
          /\ spiTx[1] = 6
          /\ spiTx[2] = adc.channel * 64
          /\ spiTx[2] % 64 = 0
          /\ spiTx[3] = 0
          /\ adc.channel = 2 => (spiTx[1] = 6 /\ spiTx[2] = 128)

C6_Witness ==
    /\ pc = "done"
    /\ adc.channel = 2
    /\ spiTx = << 6, 128, 0 >>

\* C7: readAdc returns ((r1 << 8) | r2) & 0x0FFF for the bytes r1, r2 the
\* device shifts back during Byte1 and Byte2: a value in 0..4095 in which
\* bits 7..4 of r1 and the response to Byte0 play no part; (0x0B, 0xCD)
\* decodes to 0x0BCD.
C7_AdcDecode ==
    pc = "done" =>
        /\ Len(spiRx) = 3
        /\ adc.result = (spiRx[2] * 256 + spiRx[3]) % 4096
        /\ adc.result = (spiRx[2] % 16) * 256 + spiRx[3]
        /\ adc.result \in 0..4095
        /\ (spiRx[2] = 11 /\ spiRx[3] = 205) => adc.result = 3021

\* a response with the null bit and the bits above it set
C7_Witness ==
    /\ pc = "done"
    /\ spiRx = << 255, 251, 205 >>
    /\ adc.result = 3021

\* C8: decoding the two bytes writeDac transmits (channel = Byte0 bit7,
\* gainEnable = NOT Byte0 bit5, channelEnable = Byte0 bit4,
\* value = ((Byte0 & 0x0F) << 8) | Byte1) gives back the four arguments.
DacDecode(b0, b1) ==
    [channel       |-> Bit(b0, 7),
     gainEnable    |-> Bit(b0, 5) = 0,
     channelEnable |-> Bit(b0, 4) = 1,
     value         |-> (b0 % 16) * 256 + b1]

C8_DacRoundTrip ==
    pc = "done" =>
        DacDecode(spiTx[1], spiTx[2]) =
            [channel |-> dac.channel, gainEnable |-> dac.gainEnable,
             channelEnable |-> dac.channelEnable, value |-> dac.value]

C8_Witness ==
    /\ pc = "done"
    /\ dac.channel = 0 /\ ~dac.gainEnable /\ ~dac.channelEnable
    /\ dac.value = 4095
    /\ DacDecode(spiTx[1], spiTx[2]).value = 4095
    /\ ~DacDecode(spiTx[1], spiTx[2]).gainEnable

\* quotient rounded toward zero
TruncDiv(a, b) == IF a >= 0 THEN a \div b ELSE -((-a) \div b)

\* largest target of the calibration claims
MaxTarget == 11000

\* C9 as stated: for target in 0..11000 calculateDAC1Output(target) is
\* 4530 - target x 0.437 with the whole expression truncated toward zero,
\* trunc((4530000 - 437 x target) / 1000).
C9_TruncateWhole ==
    (pc = "done" /\ cal.target \in 0..MaxTarget) =>
        cal.result = TruncDiv(4530000 - 437 * cal.target, 1000)

\* C9 amended: for target in 0..11000 calculateDAC1Output(target) is 4530
\* minus the product target x 0.437 truncated toward zero,
\* 4530 - trunc(437 x target / 1000).
C9_TruncateProduct ==
    (pc = "done" /\ cal.target \in 0..MaxTarget) =>
        cal.result = 4530 - TruncDiv(437 * cal.target, 1000)

\* a target whose product has a fraction: 4530 - trunc(0.437) = 4530
C9_Witness ==
    /\ pc = "done"
    /\ cal.target = 1
    /\ cal.result = 4530

\* C10 as stated: calculateDAC1Output(7500) returns 1248.
C10_Returns1248 ==
    (pc = "done" /\ cal.target = 7500) => cal.result = 1248

\* C10 amended: calculateDAC1Output(7500) returns 1253
\* (7500 x 0.437 = 3277.5, cut to 3277, and 4530 - 3277 = 1253).
C10_Returns1253 ==
    (pc = "done" /\ cal.target = 7500) => cal.result = 1253

C10_Witness ==
    /\ pc = "done"
    /\ cal.target = 7500
    /\ cal.result = 1253


-----------------------------------------------------------------------------
(* calculateDAC2Output: channel-1 calibration, a binary32 division *)

\* 2.21f is F221Mant * 2^-F221Exp exactly
F221Mant == 9269412
F221Exp  == 22

\* k steps of binary long division of r * 2^k by m, from quotient q and r < m
RECURSIVE LongDiv(_, _, _, _)
LongDiv(q, r, m, k) ==
    IF k = 0
    THEN [q |-> q, r |-> r]
    ELSE IF 2 * r >= m
         THEN LongDiv(2 * q + 1, 2 * r - m, m, k - 1)
         ELSE LongDiv(2 * q, 2 * r, m, k - 1)

\* whole part of the binary32 quotient a / (m * 2^-e), 0 <= a < m: the exact
\* quotient is rounded to 24 significant bits, which carries into the whole
\* part exactly when every fraction bit down to the rounding bit is a one
F32DivInt(a, m, e) ==
    LET w == LongDiv(0, a, m, e)
        k == 25 - BitLen(w.q)
        f == LongDiv(0, w.r, m, k)
    IN  IF f.q = 2 ^ k - 1 THEN w.q + 1 ELSE w.q

\* the quotient chopped instead of rounded
DivChopF32(x, m, e) ==
    IF x >= 0 THEN LongDiv(0, x, m, e).q ELSE -(LongDiv(0, -x, m, e).q)

\* (int)((float)x / c) for c = m * 2^-e: the cast truncates toward zero
DivTruncF32(x, m, e) ==
    IF x >= 0 THEN F32DivInt(x, m, e) ELSE -F32DivInt(-x, m, e)

\* the 1250 mV offset left out
calculateDAC2Output_NoOffset(target) ==
    { DivTruncF32(target, F221Mant, F221Exp) }

\* return (int)((float)(target - 1250) / 2.21f); the subtraction is an int
\* subtraction, so the set holds every outcome of the build
calculateDAC2Output(target) ==
    { DivTruncF32(d, F221Mant, F221Exp) : d \in IntAdd(target, -1250) }

CalcDAC2 ==
    /\ pc = "calculateDAC2Output"
    /\ \E code \in calculateDAC2Output(cal.target) :
           cal' = [cal EXCEPT !.result = code]
    /\ pc' = cal.ret
    /\ UNCHANGED << buttonVars, encoderVars, obsVars, spiVars,
                    ledLevel, SHUTDOWN_LED >>
    /\ UNCHANGED << ENABLE2675, lcd, held, bus >>

\* calculateDAC2Output called on every target of the bounded range, of either
\* sign
Cal2Args == [target : -MaxTarget .. MaxTarget, result : {0}, ret : {"done"}]

InitCal2 ==
    /\ InitGlobals
    /\ InitPins
    /\ pc = "calculateDAC2Output"
    /\ ledLevel = HIGH
    /\ dac = NoCall
    /\ adc = NoCall
    /\ spiTx = << >>
    /\ spiRx = << >>
    /\ cal \in Cal2Args
    /\ lcd = NoRead
    /\ InitObs

NextCal2 == CalcDAC2

SpecCal2 == InitCal2 /\ [][NextCal2]_vars

\* C11: whenever calculateDAC2Output has returned, its result is
\* 100 * (target - 1250) / 221 truncated toward zero, for targets on either
\* side of 1250; a target of 7500 gives 2828
C11_Dac2Calibration ==
    /\ pc = "done"
       => cal.result = TruncDiv(100 * (cal.target - 1250), 221)
    /\ (pc = "done" /\ cal.target = 7500) => cal.result = 2828

\* the call on 7500 has returned 2828, and a call below 1250 has returned
\* a negative code
C11_Witness == pc = "done" /\ cal.target = 7500 /\ cal.result = 2828

C11_WitnessBelow == pc = "done" /\ cal.target = 0 /\ cal.result = -565

-----------------------------------------------------------------------------
(* calculateADC2Input: one query of ADC channel 1, scaled by 2.65f *)

\* 2.65f is F265Mant * 2^-F265Exp exactly
F265Mant == 11114906
F265Exp  == 22

\* the product rounded to the nearest integer instead of cut
calculateADC2Input_Rounded(adc_voltage) ==
    MulRoundF32(adc_voltage, F265Mant, F265Exp)

\* return (int)(adc_voltage * 2.65f);
calculateADC2Input(adc_voltage) ==
    MulTruncF32(adc_voltage, F265Mant, F265Exp)

\* int adc_voltage = readAdc(1): the call
CalcAdc2Call ==
    /\ pc = "calculateADC2Input"
    /\ adc' = [channel |-> 1, b0 |-> 0, b1 |-> 0, output |-> 0, result |-> 0,
               ret |-> "adc2_scale"]
    /\ bus' = [bus EXCEPT !.queries = 0]
    /\ pc' = "readAdc"
    /\ UNCHANGED << buttonVars, encoderVars, obsVars, cal, dac, spiTx, spiRx,
                    CSADC, CSDAC, ledLevel, SHUTDOWN_LED >>
    /\ UNCHANGED << ENABLE2675, lcd, held >>

\* adc_voltage receives the value readAdc returned and is scaled
CalcAdc2Scale ==
    /\ pc = "adc2_scale"
    /\ cal' = [cal EXCEPT !.target = adc.result,
                          !.result = calculateADC2Input(adc.result)]
    /\ pc' = cal.ret
    /\ UNCHANGED << buttonVars, encoderVars, obsVars, spiVars,
                    ledLevel, SHUTDOWN_LED >>
    /\ UNCHANGED << ENABLE2675, lcd, held, bus >>

InitAdc2 ==
    /\ InitGlobals
    /\ InitPins
    /\ pc = "calculateADC2Input"
    /\ ledLevel = HIGH
    /\ dac = NoCall
    /\ adc = NoCall
    /\ spiTx = << >>
    /\ spiRx = << >>
    /\ cal = [target |-> 0, result |-> 0, ret |-> "done"]
    /\ lcd = NoRead
    /\ InitObs

NextAdc2 ==
    \/ CalcAdc2Call
    \/ NextAdc
    \/ CalcAdc2Scale

SpecAdc2 == InitAdc2 /\ [][NextAdc2]_vars

\* C12: whenever calculateADC2Input has returned, it has made exactly one
\* readAdc query, on channel 1; the raw sample r is in 0..4095 and the result
\* is 265 * r / 100 truncated, which lies in 0..10851 and in the int range; a
\* raw sample of 1000 gives 2650
C12_Adc2Calibration ==
    pc = "done" =>
        /\ bus.queries = 1
        /\ adc.channel = 1
        /\ spiTx = << ReadAdcByte0, ReadAdcByte1(1), 0 >>
        /\ cal.target = adc.result
        /\ cal.target \in 0..4095
        /\ cal.result = TruncDiv(265 * cal.target, 100)
        /\ cal.result \in 0..10851
        /\ cal.result \in Int16
        /\ cal.target = 1000 => cal.result = 2650

\* the call has returned 2650 for a raw sample of 1000, after one query
C12_Witness ==
    /\ pc = "done"
    /\ bus.queries = 1
    /\ cal.target = 1000
    /\ cal.result = 2650

-----------------------------------------------------------------------------
(* setup()'s output block: the regulator enable and the two DAC set-points *)

\* the target both set-points are given in setup()
SetupTarget == 7500

\* digitalWrite(ENABLE2675, HIGH);
SetupEnable2675 ==
    /\ pc = "setup_test"
    /\ ENABLE2675' = HIGH
    /\ pc' = "setup_dac1"
    /\ UNCHANGED << buttonVars, encoderVars, obsVars, spiVars, cal,
                    ledLevel, SHUTDOWN_LED >>
    /\ UNCHANGED << lcd, held, bus >>

\* the argument calculateDAC1Output(target) of the first writeDac is called
SetupCalcDAC1(target) ==
    /\ pc = "setup_dac1"
    /\ cal' = [target |-> target, result |-> 0, ret |-> "setup_write1"]
    /\ pc' = "calculateDAC1Output"
    /\ UNCHANGED << buttonVars, encoderVars, obsVars, spiVars,
                    ledLevel, SHUTDOWN_LED >>
    /\ UNCHANGED << ENABLE2675, lcd, held, bus >>

\* writeDac(0, true, true, <the code returned>);
SetupWriteDac1 ==
    /\ pc = "setup_write1"
    /\ dac' = [channel |-> 0, gainEnable |-> TRUE, channelEnable |-> TRUE,
               value |-> cal.result, b |-> 0, ret |-> "setup_dac2"]
    /\ pc' = "writeDac"
    /\ UNCHANGED << buttonVars, encoderVars, obsVars, cal, adc, spiTx, spiRx,
                    CSADC, CSDAC, ledLevel, SHUTDOWN_LED >>
    /\ UNCHANGED << ENABLE2675, lcd, held, bus >>

\* the argument calculateDAC2Output(target) of the second writeDac is called
SetupCalcDAC2(target) ==
    /\ pc = "setup_dac2"
    /\ cal' = [target |-> target, result |-> 0, ret |-> "setup_write2"]
    /\ pc' = "calculateDAC2Output"
    /\ UNCHANGED << buttonVars, encoderVars, obsVars, spiVars,
                    ledLevel, SHUTDOWN_LED >>
    /\ UNCHANGED << ENABLE2675, lcd, held, bus >>

\* writeDac(1, true, true, <the code returned>);
SetupWriteDac2 ==
    /\ pc = "setup_write2"
    /\ dac' = [channel |-> 1, gainEnable |-> TRUE, channelEnable |-> TRUE,
               value |-> cal.result, b |-> 0, ret |-> "setup_done"]
    /\ pc' = "writeDac"
    /\ UNCHANGED << buttonVars, encoderVars, obsVars, cal, adc, spiTx, spiRx,
                    CSADC, CSDAC, ledLevel, SHUTDOWN_LED >>
    /\ UNCHANGED << ENABLE2675, lcd, held, bus >>

\* targets a caller of the set-point code may supply: zero, the ends of each
\* channel's in-range interval, the advertised output range and the bound
SetTargets == {0, 500, 995, 996, 1247, 1248, 1300, SetupTarget, 10000,
               10302, 10303, 10368, 10369, MaxTarget}

\* setup()'s output block with the target left to the caller
InitSetDac ==
    /\ InitGlobals
    /\ InitPins
    /\ pc = "setup_test"
    /\ ledLevel = HIGH
    /\ dac = NoCall
    /\ adc = NoCall
    /\ spiTx = << >>
    /\ spiRx = << >>
    /\ cal = NoCall
    /\ lcd = NoRead
    /\ InitObs

NextSetDac ==
    \/ SetupEnable2675
    \/ \E target \in SetTargets : SetupCalcDAC1(target)
    \/ CalcDAC1
    \/ SetupWriteDac1
    \/ \E target \in SetTargets : SetupCalcDAC2(target)
    \/ CalcDAC2
    \/ SetupWriteDac2
    \/ NextDac

SpecSetDac == InitSetDac /\ [][NextSetDac]_vars

\* a code brought into the range of the converter
Clamp(code) ==
    IF code < 0 THEN 0 ELSE IF code > MaxDacCode THEN MaxDacCode ELSE code

\* C13: when both bytes of a DAC frame have been transmitted, the 12-bit value
\* the frame carries is the calibration code computed for it, brought into
\* 0..4095: it is the code itself when that is in range and its clamp
\* otherwise, never the code modulo 4096
C13_CodeClamped ==
    (pc = "dac_cs_high" /\ Len(spiTx) = 2) =>
        DacDecode(spiTx[1], spiTx[2]).value = Clamp(cal.result)

\* a frame has been transmitted for a code outside 0..4095
C13_OutOfRangeSent ==
    /\ pc = "dac_cs_high"
    /\ Len(spiTx) = 2
    /\ cal.result \notin 0..MaxDacCode

-----------------------------------------------------------------------------
(* The complete firmware: setup()'s output block, then loop() for ever, with
   the tick interrupt free to fire between any two steps *)

\* setup() returns and loop() is entered
SetupReturn ==
    /\ pc = "setup_done"
    /\ pc' = "main_loop"
    /\ UNCHANGED << buttonVars, encoderVars, obsVars, spiVars, cal,
                    ledLevel, SHUTDOWN_LED >>
    /\ UNCHANGED << ENABLE2675, lcd, held, bus >>

\* if (outputEnabledChanged)
MainTestEnabled ==
    /\ pc = "main_loop"
    /\ pc' = IF outputEnabledChanged THEN "main_led_read" ELSE "main_vset"
    /\ UNCHANGED << buttonVars, encoderVars, obsVars, spiVars, cal,
                    ledLevel, SHUTDOWN_LED >>
    /\ UNCHANGED << ENABLE2675, lcd, held, bus >>

\* the argument !outputEnabled of digitalWrite is evaluated
MainReadEnabled ==
    /\ pc = "main_led_read"
    /\ ledLevel' = BoolToInt(~outputEnabled)
    /\ pc' = "main_led_write"
    /\ UNCHANGED << buttonVars, encoderVars, obsVars, spiVars, cal,
                    SHUTDOWN_LED >>
    /\ UNCHANGED << ENABLE2675, lcd, held, bus >>

\* digitalWrite(SHUTDOWN_LED, ...)
MainWriteLed ==
    /\ pc = "main_led_write"
    /\ SHUTDOWN_LED' = ledLevel
    /\ pc' = "main_led_clear"
    /\ UNCHANGED << buttonVars, encoderVars, obsVars, spiVars, cal,
                    ledLevel >>
    /\ UNCHANGED << ENABLE2675, lcd, held, bus >>

\* outputEnabledChanged = false;
MainClearEnabled ==
    /\ pc = "main_led_clear"
    /\ outputEnabledChanged' = FALSE
    /\ pc' = "main_vset"
    /\ UNCHANGED << outputEnabled, resetButtonDepressedCount, encoderVars,
                    obsVars, spiVars, cal, ledLevel, SHUTDOWN_LED >>
    /\ UNCHANGED << ENABLE2675, lcd, held, bus >>

\* if (vSetEncoderChanged)
MainTestVSet ==
    /\ pc = "main_vset"
    /\ pc' = IF vSetEncoderChanged THEN "main_vset_clear" ELSE "main_iset"
    /\ UNCHANGED << buttonVars, encoderVars, obsVars, spiVars, cal,
                    ledLevel, SHUTDOWN_LED >>
    /\ UNCHANGED << ENABLE2675, lcd, held, bus >>

\* the foreground also writing the position
MainClearVSet_ZeroesPosition ==
    /\ pc = "main_vset_clear"
    /\ vSetEncoderChanged' = FALSE
    /\ vSetEncoderValue' = 0
    /\ pc' = "main_iset"
    /\ UNCHANGED << buttonVars, iSetEncoderValue,
                    iSetEncoderChanged, VSETA_last, ISETA_last,
                    obsVars, spiVars, cal, ledLevel, SHUTDOWN_LED >>
    /\ UNCHANGED << ENABLE2675, lcd, held, bus >>

\* vSetEncoderChanged = false; (the updateLCD() call is commented out)
MainClearVSet ==
    /\ pc = "main_vset_clear"
    /\ vSetEncoderChanged' = FALSE
    /\ pc' = "main_iset"
    /\ UNCHANGED << buttonVars, vSetEncoderValue, iSetEncoderValue,
                    iSetEncoderChanged, VSETA_last, ISETA_last,
                    obsVars, spiVars, cal, ledLevel, SHUTDOWN_LED >>
    /\ UNCHANGED << ENABLE2675, lcd, held, bus >>

\* if (iSetEncoderChanged)
MainTestISet ==
    /\ pc = "main_iset"
    /\ pc' = IF iSetEncoderChanged THEN "main_iset_clear" ELSE "main_adc0"
    /\ UNCHANGED << buttonVars, encoderVars, obsVars, spiVars, cal,
                    ledLevel, SHUTDOWN_LED >>
    /\ UNCHANGED << ENABLE2675, lcd, held, bus >>

\* iSetEncoderChanged = false;
MainClearISet ==
    /\ pc = "main_iset_clear"
    /\ iSetEncoderChanged' = FALSE
    /\ pc' = "main_adc0"
    /\ UNCHANGED << buttonVars, vSetEncoderValue, iSetEncoderValue,
                    vSetEncoderChanged, VSETA_last, ISETA_last,
                    obsVars, spiVars, cal, ledLevel, SHUTDOWN_LED >>
    /\ UNCHANGED << ENABLE2675, lcd, held, bus >>

\* lcd.print(readAdc(0)): the call
MainReadAdc0 ==
    /\ pc = "main_adc0"
    /\ adc' = [channel |-> 0, b0 |-> 0, b1 |-> 0, output |-> 0, result |-> 0,
               ret |-> "main_adc2"]
    /\ pc' = "readAdc"
    /\ UNCHANGED << buttonVars, encoderVars, obsVars, cal, dac, spiTx, spiRx,
                    CSADC, CSDAC, ledLevel, SHUTDOWN_LED >>
    /\ UNCHANGED << ENABLE2675, lcd, held, bus >>

\* lcd.print(calculateADC2Input()): the call
MainCalcAdc2 ==
    /\ pc = "main_adc2"
    /\ cal' = [target |-> 0, result |-> 0, ret |-> "main_delay"]
    /\ pc' = "calculateADC2Input"
    /\ UNCHANGED << buttonVars, encoderVars, obsVars, spiVars,
                    ledLevel, SHUTDOWN_LED >>
    /\ UNCHANGED << ENABLE2675, lcd, held, bus >>

\* delay(1000); loop() returns and is called again
MainDelay ==
    /\ pc = "main_delay"
    /\ pc' = "main_loop"
    /\ UNCHANGED << buttonVars, encoderVars, obsVars, spiVars, cal,
                    ledLevel, SHUTDOWN_LED >>
    /\ UNCHANGED << ENABLE2675, lcd, held, bus >>

\* pin levels sampled by the ticks of the complete firmware: the button at
\* either level, the two encoders turned together in opposite directions
MainSamples ==
    { s \in PinSamples : s.iA = s.vA /\ s.iB = 1 - s.vB }

\* bytes the ADC shifts back in the complete firmware
MainResponses == {0, 255}

MainTick ==
    /\ ticks < MaxTicks
    /\ \E s \in MainSamples : Tick(s)

\* the steps of the foreground: setup()'s output block and loop()
MainStep ==
    \/ SetupEnable2675
    \/ SetupCalcDAC1(SetupTarget)
    \/ CalcDAC1
    \/ SetupWriteDac1
    \/ SetupCalcDAC2(SetupTarget)
    \/ CalcDAC2
    \/ SetupWriteDac2
    \/ WriteDacFrame
    \/ WriteDacCsLow
    \/ WriteDacTransfer0
    \/ WriteDacTransfer1
    \/ WriteDacCsHigh
    \/ SetupReturn
    \/ MainTestEnabled
    \/ MainReadEnabled
    \/ MainWriteLed
    \/ MainClearEnabled
    \/ MainTestVSet
    \/ MainClearVSet
    \/ MainTestISet
    \/ MainClearISet
    \/ MainReadAdc0
    \/ MainCalcAdc2
    \/ CalcAdc2Call
    \/ ReadAdcFrame
    \/ ReadAdcCsLow
    \/ \E r \in MainResponses : ReadAdcTransfer0(r)
    \/ \E r \in MainResponses : ReadAdcTransfer1(r)
    \/ \E r \in MainResponses : ReadAdcTransfer2(r)
    \/ ReadAdcCsHigh
    \/ ReadAdcReturn
    \/ CalcAdc2Scale
    \/ MainDelay

\* the timer is attached: the state in which setup() reaches its output block
InitMain ==
    /\ InitGlobals
    /\ InitPins
    /\ pc = "setup_test"
    /\ ledLevel = HIGH
    /\ dac = NoCall
    /\ adc = NoCall
    /\ spiTx = << >>
    /\ spiRx = << >>
    /\ cal = NoCall
    /\ lcd = NoRead
    /\ InitObs

NextMain ==
    \/ MainStep
    \/ MainTick

SpecMain == InitMain /\ [][NextMain]_vars

-----------------------------------------------------------------------------
(* The SPI bus as a critical section *)

\* the step is a run of the tick interrupt handler
IsTickStep == ticks' # ticks

\* the step clocks a byte over the bus
IsTransfer == Len(spiTx') > Len(spiTx)

BusStep ==
    \* a byte is clocked with exactly one device selected, and the selection
    \* stands over the transfer
    /\ IsTransfer =>
           /\ (CSADC = LOW) # (CSDAC = LOW)
           /\ CSADC' = CSADC /\ CSDAC' = CSDAC
    \* the DAC is selected with nothing yet sent and released after two bytes
    /\ (CSDAC = HIGH /\ CSDAC' = LOW) => (Len(spiTx) = 0 /\ CSADC = HIGH)
    /\ (CSDAC = LOW /\ CSDAC' = HIGH) => Len(spiTx) = 2
    \* the ADC is selected with nothing yet sent and released after three
    /\ (CSADC = HIGH /\ CSADC' = LOW) => (Len(spiTx) = 0 /\ CSDAC = HIGH)
    /\ (CSADC = LOW /\ CSADC' = HIGH) => Len(spiTx) = 3
    \* while one device stays selected the other's chip select does not move
    /\ (CSDAC = LOW /\ CSDAC' = LOW) => CSADC' = CSADC
    /\ (CSADC = LOW /\ CSADC' = LOW) => CSDAC' = CSDAC
    \* the tick handler clocks no byte and moves no chip select
    /\ IsTickStep => UNCHANGED << CSADC, CSDAC, spiTx, spiRx >>

\* C14: at most one of the two chip selects is low in every state; every byte
\* is transferred with exactly one chip select low; a DAC transaction is chip
\* select low, two transfers, chip select high and an ADC transaction is chip
\* select low, three transfers, chip select high, with the other device's
\* chip select untouched in between; and a tick, wherever it preempts the
\* foreground, transfers nothing and changes no chip select
C14_BusCriticalSection ==
    /\ [](CSADC = HIGH \/ CSDAC = HIGH)
    /\ [][BusStep]_vars

\* the three bytes of an ADC query have been clocked, the ADC is still
\* selected, and the last tick fired between the two chip-select edges
C14_Witness ==
    /\ pc = "adc_cs_high"
    /\ CSADC = LOW
    /\ CSDAC = HIGH
    /\ Len(spiTx) = 3
    /\ tickAt = "spi"
    /\ bus.dacOn

-----------------------------------------------------------------------------
(* updateLCD and the loop() that calls it (the revision with the encoders
   and without the converters) *)

\* the two bytes of a 16-bit int
LowByte(x)  == ToU16(x) % 256
HighByte(x) == ToU16(x) \div 256

\* the int made of a byte fetched first and a byte fetched second, in the
\* order the build fetches them
Assemble(order, first, second) ==
    IF order = "lo" THEN ToS16(second * 256 + first)
    ELSE ToS16(first * 256 + second)

\* lcd.print(vSetEncoderValue): the first byte of the volatile int is fetched;
\* which byte comes first is the compiler's choice
UpdateLcdReadV1 ==
    /\ pc = "updateLCD"
    /\ \E order \in {"lo", "hi"} :
           lcd' = [lcd EXCEPT !.reading = "v", !.order = order,
                              !.byte = IF order = "lo"
                                       THEN LowByte(vSetEncoderValue)
                                       ELSE HighByte(vSetEncoderValue)]
    /\ held' = [held EXCEPT !.v = {vSetEncoderValue}, !.n = 0]
    /\ pc' = "lcd_v2"
    /\ UNCHANGED << buttonVars, encoderVars, obsVars, spiVars, cal,
                    ledLevel, SHUTDOWN_LED >>
    /\ UNCHANGED << ENABLE2675, bus >>

\* the second byte is fetched and the value is printed
UpdateLcdReadV2 ==
    /\ pc = "lcd_v2"
    /\ lcd' = [lcd EXCEPT !.reading = "none", !.vRead = TRUE,
                          !.v = Assemble(lcd.order, lcd.byte,
                                         IF lcd.order = "lo"
                                         THEN HighByte(vSetEncoderValue)
                                         ELSE LowByte(vSetEncoderValue))]
    /\ pc' = "lcd_i1"
    /\ UNCHANGED << buttonVars, encoderVars, obsVars, spiVars, cal,
                    ledLevel, SHUTDOWN_LED >>
    /\ UNCHANGED << ENABLE2675, held, bus >>

\* lcd.print(iSetEncoderValue): first byte
UpdateLcdReadI1 ==
    /\ pc = "lcd_i1"
    /\ \E order \in {"lo", "hi"} :
           lcd' = [lcd EXCEPT !.reading = "i", !.order = order,
                              !.byte = IF order = "lo"
                                       THEN LowByte(iSetEncoderValue)
                                       ELSE HighByte(iSetEncoderValue)]
    /\ held' = [held EXCEPT !.i = {iSetEncoderValue}, !.n = 0]
    /\ pc' = "lcd_i2"
    /\ UNCHANGED << buttonVars, encoderVars, obsVars, spiVars, cal,
                    ledLevel, SHUTDOWN_LED >>
    /\ UNCHANGED << ENABLE2675, bus >>

\* second byte; updateLCD returns
UpdateLcdReadI2 ==
    /\ pc = "lcd_i2"
    /\ lcd' = [lcd EXCEPT !.reading = "none", !.iRead = TRUE,
                          !.i = Assemble(lcd.order, lcd.byte,
                                         IF lcd.order = "lo"
                                         THEN HighByte(iSetEncoderValue)
                                         ELSE LowByte(iSetEncoderValue))]
    /\ pc' = lcd.ret
    /\ UNCHANGED << buttonVars, encoderVars, obsVars, spiVars, cal,
                    ledLevel, SHUTDOWN_LED >>
    /\ UNCHANGED << ENABLE2675, held, bus >>

\* if (vSetEncoderChanged) { updateLCD(); ...
EncLoopTestVSet ==
    /\ pc = "main_vset"
    /\ IF vSetEncoderChanged
       THEN /\ lcd' = [lcd EXCEPT !.ret = "main_vset_clear",
                                  !.vRead = FALSE, !.iRead = FALSE]
            /\ pc' = "updateLCD"
       ELSE /\ pc' = "enc_iset"
            /\ UNCHANGED lcd
    /\ UNCHANGED << buttonVars, encoderVars, obsVars, spiVars, cal,
                    ledLevel, SHUTDOWN_LED >>
    /\ UNCHANGED << ENABLE2675, held, bus >>

\* ... vSetEncoderChanged = false; }
EncLoopClearVSet ==
    /\ pc = "main_vset_clear"
    /\ vSetEncoderChanged' = FALSE
    /\ pc' = "enc_iset"
    /\ UNCHANGED << buttonVars, vSetEncoderValue, iSetEncoderValue,
                    iSetEncoderChanged, VSETA_last, ISETA_last,
                    obsVars, spiVars, cal, ledLevel, SHUTDOWN_LED >>
    /\ UNCHANGED << ENABLE2675, lcd, held, bus >>

\* if (iSetEncoderChanged) { updateLCD(); ...
EncLoopTestISet ==
    /\ pc = "enc_iset"
    /\ IF iSetEncoderChanged
       THEN /\ lcd' = [lcd EXCEPT !.ret = "enc_iset_clear",
                                  !.vRead = FALSE, !.iRead = FALSE]
            /\ pc' = "updateLCD"
       ELSE /\ pc' = "main_loop"
            /\ UNCHANGED lcd
    /\ UNCHANGED << buttonVars, encoderVars, obsVars, spiVars, cal,
                    ledLevel, SHUTDOWN_LED >>
    /\ UNCHANGED << ENABLE2675, held, bus >>

\* ... iSetEncoderChanged = false; } and loop() is called again
EncLoopClearISet ==
    /\ pc = "enc_iset_clear"
    /\ iSetEncoderChanged' = FALSE
    /\ pc' = "main_loop"
    /\ UNCHANGED << buttonVars, vSetEncoderValue, iSetEncoderValue,
                    vSetEncoderChanged, VSETA_last, ISETA_last,
                    obsVars, spiVars, cal, ledLevel, SHUTDOWN_LED >>
    /\ UNCHANGED << ENABLE2675, lcd, held, bus >>

\* the two fetches of one int are adjacent instructions and the ticks are
\* 5 ms apart: at most one tick falls between them
EncLoopTick ==
    /\ ticks < MaxTicks
    /\ lcd.reading # "none" => held.n = 0
    /\ \E s \in MainSamples : Tick(s)

\* the timer is attached and setup() has returned
InitEncLoop ==
    /\ InitGlobals
    /\ InitPins
    /\ pc = "main_loop"
    /\ ledLevel = HIGH
    /\ dac = NoCall
    /\ adc = NoCall
    /\ spiTx = << >>
    /\ spiRx = << >>
    /\ cal = NoCall
    /\ lcd = NoRead
    /\ InitObs

NextEncLoop ==
    \/ MainTestEnabled
    \/ MainReadEnabled
    \/ MainWriteLed
    \/ MainClearEnabled
    \/ EncLoopTestVSet
    \/ EncLoopClearVSet
    \/ EncLoopTestISet
    \/ EncLoopClearISet
    \/ UpdateLcdReadV1
    \/ UpdateLcdReadV2
    \/ UpdateLcdReadI1
    \/ UpdateLcdReadI2
    \/ EncLoopTick

SpecEncLoop == InitEncLoop /\ [][NextEncLoop]_vars

\* C15: a position that updateLCD has read is a value the position held at
\* some instant between the fetch of its first byte and the fetch of its
\* second, wherever the ticks fall
C15_NoTornRead ==
    /\ lcd.vRead => lcd.v \in held.v
    /\ lcd.iRead => lcd.i \in held.i

\* a tick changed the position between the two fetches
C15_TickBetweenFetches ==
    /\ pc = "lcd_v2"
    /\ Cardinality(held.v) > 1

-----------------------------------------------------------------------------
(* Ownership of the shared control state *)

\* a flag is written by the step only by being set to false
OnlyCleared(flag, flagNext) == flagNext # flag => flagNext = FALSE

\* a flag is never set to false by the step
NeverCleared(flag, flagNext) == flag => flagNext

OwnershipStep ==
    IF IsTickStep
    THEN /\ UNCHANGED << SHUTDOWN_LED, CSADC, CSDAC, ENABLE2675 >>
         /\ NeverCleared(outputEnabledChanged, outputEnabledChanged')
         /\ NeverCleared(vSetEncoderChanged, vSetEncoderChanged')
         /\ NeverCleared(iSetEncoderChanged, iSetEncoderChanged')
    ELSE /\ UNCHANGED << outputEnabled, resetButtonDepressedCount,
                         vSetEncoderValue, iSetEncoderValue,
                         VSETA_last, ISETA_last >>
         /\ OnlyCleared(outputEnabledChanged, outputEnabledChanged')
         /\ OnlyCleared(vSetEncoderChanged, vSetEncoderChanged')
         /\ OnlyCleared(iSetEncoderChanged, iSetEncoderChanged')

\* C16: every step of the foreground (setup()'s output block, loop(),
\* writeDac, readAdc, calculateADC2Input) leaves outputEnabled, the depressed
\* count, both positions and both last-A values unchanged and writes a changed
\* flag only to set it false; every step of the tick handler leaves the LED,
\* both chip selects and the regulator enable unchanged and never sets a
\* changed flag false
C16_Ownership == [][OwnershipStep]_vars

\* the ticks have toggled the output and turned the encoders, and loop() has
\* written the LED and cleared the flags
C16_Witness ==
    /\ pc = "main_adc0"
    /\ outputEnabled
    /\ SHUTDOWN_LED = LOW
    /\ vSetEncoderValue # 0
    /\ iSetEncoderValue # 0
    /\ ~outputEnabledChanged
    /\ ~vSetEncoderChanged
    /\ ~iSetEncoderChanged

-----------------------------------------------------------------------------
(* Input capture seen from outside: the tick as a function of the samples *)

\* the state only the tick handler writes
Core ==
    [enabled |-> outputEnabled, count |-> resetButtonDepressedCount,
     v |-> vSetEncoderValue, i |-> iSetEncoderValue,
     vLast |-> VSETA_last, iLast |-> ISETA_last]

\* a debounced release: the button was asserted for more than three samples
Released(c, s) == s.btn = HIGH /\ c.count > DebounceThreshold

\* a detent of an encoder: its A line rose since the last tick
Detent(last, A) == last = LOW /\ A = HIGH

\* the state the tick leaves, from the state it finds and the levels it
\* samples; the counters are far from the ends of the int range
CoreAfter(c, s) ==
    [enabled |-> IF Released(c, s) THEN ~c.enabled ELSE c.enabled,
     count   |-> IF s.btn = LOW THEN c.count + 1 ELSE 0,
     v       |-> IF Detent(c.vLast, s.vA)
                 THEN (IF s.vB = LOW THEN c.v + 1 ELSE c.v - 1) ELSE c.v,
     i       |-> IF Detent(c.iLast, s.iA)
                 THEN (IF s.iB = LOW THEN c.i + 1 ELSE c.i - 1) ELSE c.i,
     vLast   |-> s.vA,
     iLast   |-> s.iA]

CaptureStep ==
    LET after == [enabled |-> outputEnabled',
                  count |-> resetButtonDepressedCount',
                  v |-> vSetEncoderValue', i |-> iSetEncoderValue',
                  vLast |-> VSETA_last', iLast |-> ISETA_last']
    IN  IF IsTickStep
        THEN /\ after = CoreAfter(Core, pins')
             /\ outputEnabledChanged' =
                    (outputEnabledChanged \/ Released(Core, pins'))
             /\ vSetEncoderChanged' =
                    (vSetEncoderChanged \/ Detent(VSETA_last, pins'.vA))
             /\ iSetEncoderChanged' =
                    (iSetEncoderChanged \/ Detent(ISETA_last, pins'.iA))
        ELSE after = Core

\* C17: wherever in the foreground a tick fires, what it does to
\* outputEnabled, the depressed count, the positions and the last-A values is
\* one function of the levels it samples and of those values before it, and
\* each changed flag becomes (flag or event); no foreground step touches
\* those values, so their sequence is fixed by the sampled input sequence
C17_CaptureIndependent == [][CaptureStep]_vars

\* a tick that fired between the edges of the ADC chip select delivered a
\* debounced toggle that loop() has not yet seen
C17_Witness ==
    /\ tickAt = "spi"
    /\ CSADC = LOW
    /\ outputEnabled
    /\ outputEnabledChanged

\* the last tick fired inside delay(1000) and moved the positions
C17_WitnessDelay ==
    /\ tickAt = "delay"
    /\ pc = "main_delay"
    /\ vSetEncoderChanged
    /\ vSetEncoderValue # 0

\* the last tick fired between the LED write and the flag clear
C17_WitnessLed ==
    /\ tickAt = "led"
    /\ pc = "main_led_clear"
    /\ resetButtonDepressedCount > 0

-----------------------------------------------------------------------------
(* The output state at power-up *)

\* positions of the foreground inside setup()
SetupPositions ==
    {"setup_test", "setup_dac1", "calculateDAC1Output", "setup_write1",
     "writeDac", "dac_cs_low", "dac_tx0", "dac_tx1", "dac_cs_high",
     "setup_dac2", "calculateDAC2Output", "setup_write2", "setup_done"}

\* C18: once setup() has returned and as long as no debounced press has
\* toggled the output, outputEnabled is false, the shutdown LED is HIGH, the
\* LM2675 enable pin is LOW and no DAC frame with the channel-enable bit set
\* has been transmitted
C18_PowerUpDisabled ==
    (pc \notin SetupPositions /\ ~toggled) =>
        /\ ~outputEnabled
        /\ SHUTDOWN_LED = HIGH
        /\ ENABLE2675 = LOW
        /\ ~bus.dacOn

\* loop() is running, the output was never toggled, and the regulator is
\* enabled with both set-points written
C18_EnabledAtPowerUp ==
    /\ pc = "main_loop"
    /\ ~toggled
    /\ ticks = 0
    /\ ENABLE2675 = HIGH
    /\ bus.dacOn

-----------------------------------------------------------------------------
(* The set-points over the advertised output range *)

\* "1.3 - 10V output", in millivolts
MinOutput == 1300
MaxOutput == 10000

\* setup()'s output block with both set-points given one target of the range
InitRange ==
    /\ InitGlobals
    /\ InitPins
    /\ pc = "setup_test"
    /\ ledLevel = HIGH
    /\ dac = NoCall
    /\ adc = NoCall
    /\ spiTx = << >>
    /\ spiRx = << >>
    /\ cal = NoCall
    /\ lcd = NoRead
    /\ InitObs

NextRange ==
    \/ SetupEnable2675
    \/ /\ pc = "setup_dac1"
       /\ \E target \in MinOutput .. MaxOutput : SetupCalcDAC1(target)
    \/ CalcDAC1
    \/ SetupWriteDac1
    \/ SetupCalcDAC2(cal.target)
    \/ CalcDAC2
    \/ SetupWriteDac2
    \/ NextDac

SpecRange == InitRange /\ [][NextRange]_vars

\* C19: for every target from 1300 to 10000 the code calculateDAC1Output
\* returns and the code calculateDAC2Output returns are in 0..4095, and the
\* 12-bit value of the frame writeDac transmits is that code
C19_CodesInRange ==
    /\ pc \in {"setup_write1", "setup_write2"} =>
           cal.result \in 0 .. MaxDacCode
    /\ (pc = "dac_cs_high" /\ Len(spiTx) = 2) =>
           /\ dac.value = cal.result
           /\ DacDecode(spiTx[1], spiTx[2]).value = cal.result

\* both set-points have been transmitted for the top of the range; the second
\* frame carries calculateDAC2Output(10000) = 3959
C19_Witness ==
    /\ pc = "setup_done"
    /\ cal.target = MaxOutput
    /\ cal.result = 3959
    /\ DacDecode(spiTx[1], spiTx[2]).value = 3959

-----------------------------------------------------------------------------
(* writeDac on any int value *)

\* writeDac called with every 16-bit int as the value
DacWideArgs == [channel : {0, 1}, gainEnable : BOOLEAN,
                channelEnable : BOOLEAN, value : Int16, b : {0},
                ret : {"done"}]

InitDacWide ==
    /\ InitGlobals
    /\ InitPins
    /\ pc = "writeDac"
    /\ ledLevel = HIGH
    /\ dac \in DacWideArgs
    /\ adc = NoCall
    /\ spiTx = << >>
    /\ spiRx = << >>
    /\ cal = NoCall
    /\ lcd = NoRead
    /\ InitObs

SpecDacWide == InitDacWide /\ [][NextDac]_vars

\* C20: whenever writeDac has returned, for any int value, bits 7..4 of the
\* first byte are the channel bit, a zero, the inverted gain flag and the
\* enable flag, whatever the value, and the 12 bits made of the low nibble of
\* the first byte and of the second byte are the value modulo 4096; -1 is
\* sent as 4095 and 4530 as 434
C20_ValueModulo4096 ==
    pc = "done" =>
        LET carried == (spiTx[1] % 16) * 256 + spiTx[2]
        IN  /\ Len(spiTx) = 2
            /\ spiTx[1] \div 16 =
                   8 * dac.channel + 2 * BoolToInt(~dac.gainEnable)
                   + BoolToInt(dac.channelEnable)
            /\ carried = dac.value % 4096
            /\ dac.value = -1 => carried = 4095
            /\ dac.value = 4530 => carried = 434

\* the call with the value 4530 has returned, having sent 434
C20_Witness ==
    /\ pc = "done"
    /\ dac.value = 4530
    /\ (spiTx[1] % 16) * 256 + spiTx[2] = 434

\* the call with the value -1 has returned, having sent 4095
C20_WitnessNegative ==
    /\ pc = "done"
    /\ dac.value = -1
    /\ (spiTx[1] % 16) * 256 + spiTx[2] = 4095

=============================================================================
